---- MODULE Spec2Model ----
(***************************************************************************)
(* CarbonController (carbon-controller/src/lib.rs): a Soroban contract     *)
(* keeping an asset registry, a listing book and a settlement-currency     *)
(* reference in instance storage, and settling buys through two token      *)
(* ledgers.  Every entry point is one transaction: a panic anywhere in it  *)
(* (the contract's own, or one raised by a token client call) discards     *)
(* every write of the call.                                                *)
(*                                                                         *)
(* i128 is modelled as a two's-complement integer of WordBits bits and the *)
(* 7-decimal fixed point as Decimals decimals, so that the products of the *)
(* model stay inside the model checker's integers.                         *)
(***************************************************************************)
EXTENDS Integers, Sequences, FiniteSets, TLC

\* ------------------------------------------------------------------ bounds
Decimals == 1
WordBits == 24
MaxEvents == 1

Scale == 10 ^ Decimals
I128_MAX == 2 ^ (WordBits - 1) - 1

\* ------------------------------------------------------------- identities
Engine == "ENGINE"
Users == {"A1", "I1", "B1"}
Holders == Users \cup {Engine}
Codes == {"VCS001", "ZORLU23"}
Tokens == {"XML", "CRB"}

\* -------------------------------------------------------------- the state
VARIABLES
    assets,      \* DataKey::Asset(code)            -> CarbonAssetMeta
    xml_token,   \* DataKey::XmlToken               -> Address (a set of <= 1)
    listings,    \* DataKey::Listing(code, seller)  -> Listing
    balance,     \* token ledgers: balance[token][holder]
    allowance,   \* token ledgers: allowance[token][<<from, spender>>]
    events,      \* CarbonRetireEvent published by committed calls
    last,        \* the last call: entry point, outcome, arguments if committed
    tally        \* history: per (code, seller), the amount of the last committed
                 \* list_asset and the units settled by committed buys since

vars == <<assets, xml_token, listings, balance, allowance, events, last, tally>>

CarbonAssetMeta(project_id, vintage_year, token, admin) ==
    [project_id |-> project_id, vintage_year |-> vintage_year,
     token |-> token, admin |-> admin]

Listing(asset_code, seller, amount, price) ==
    [asset_code |-> asset_code, seller |-> seller, amount |-> amount, price |-> price]

CarbonRetireEvent(asset_code, holder, amount, project_id, vintage_year, note) ==
    [asset_code |-> asset_code, holder |-> holder, amount |-> amount,
     project_id |-> project_id, vintage_year |-> vintage_year, note |-> note]

\* The state a call works on, as one value.
St ==
    [assets |-> assets, xml_token |-> xml_token, listings |-> listings,
     balance |-> balance, allowance |-> allowance, events |-> events]

\* ------------------------------------------------------- host and ledgers
\* Address::require_auth: the address signed the invocation tree, or it is
\* the contract that makes the call.
Authorized(addr, auth) == addr = Engine \/ addr \in auth

\* A call that ran to its end: its writes and its ledger calls are kept.
Done(st, calls) == [res |-> "ok", st |-> st, calls |-> calls]

\* Variant of Abort: the writes made before the panic are kept.
Abort_keeps_writes(pre, cur, msg, calls) == [res |-> msg, st |-> cur, calls |-> calls]

\* A panic: the host discards every write of the call; `cur` is the working
\* state at the panic, `calls` the ledger calls attempted so far.
Abort(pre, cur, msg, calls) == [res |-> msg, st |-> pre, calls |-> calls]

LedgerCall(fn, token, spender, from, to, amount) ==
    [fn |-> fn, token |-> token, spender |-> spender, from |-> from,
     to |-> to, amount |-> amount]

\* i128::checked_mul in the modelled width: <<>> on overflow, <<a * b>> otherwise.
Abs(x) == IF x < 0 THEN 0 - x ELSE x

\* (a * b) modulo 2^WordBits by doubling, for a >= 0.
RECURSIVE MulMod(_, _)
MulMod(a, b) ==
    IF a = 0 THEN 0
    ELSE (2 * MulMod(a \div 2, b) + (a % 2) * (b % 2 ^ WordBits)) % 2 ^ WordBits

\* Variant of checked_mul: i128::wrapping_mul, which never reports overflow.
wrapping_mul(a, b) ==
    LET m == IF a >= 0 THEN MulMod(a, b) ELSE MulMod(0 - a, 0 - b)
    IN <<IF m > I128_MAX THEN m - 2 ^ WordBits ELSE m>>

checked_mul(a, b) ==
    IF a = 0 \/ b = 0 THEN <<0>>
    ELSE IF (a > 0) = (b > 0)
         THEN IF Abs(a) > I128_MAX \div Abs(b) THEN <<>> ELSE <<a * b>>
         ELSE IF Abs(a) > (I128_MAX + 1) \div Abs(b) THEN <<>> ELSE <<a * b>>

\* TokenClient::transfer_from(spender, from, to, amount) of the token interface.
TransferFromError(st, token, spender, from, amount, auth) ==
    IF ~Authorized(spender, auth) THEN "ledger: spender not authorized"
    ELSE IF amount < 0 THEN "ledger: negative amount"
    ELSE IF st.allowance[token][<<from, spender>>] < amount
         THEN "ledger: insufficient allowance"
    ELSE IF st.balance[token][from] < amount THEN "ledger: insufficient balance"
    ELSE "ok"

Moved(bal, from, to, amount) ==
    [h \in Holders |->
        bal[h] - (IF h = from THEN amount ELSE 0) + (IF h = to THEN amount ELSE 0)]

\* Variant of TransferFrom: the units are credited to the contract's own
\* account instead of the recipient's.
TransferFrom_into_custody(st, token, spender, from, to, amount) ==
    [st EXCEPT
        !.allowance[token][<<from, spender>>] = @ - amount,
        !.balance[token] = Moved(@, from, Engine, amount)]

TransferFrom(st, token, spender, from, to, amount) ==
    [st EXCEPT
        !.allowance[token][<<from, spender>>] = @ - amount,
        !.balance[token] = Moved(@, from, to, amount)]

\* StellarAssetClient::mint(to, amount)
MintError(st, token, to, amount) ==
    IF amount < 0 THEN "ledger: negative amount" ELSE "ok"

Mint(st, token, to, amount) ==
    [st EXCEPT !.balance[token][to] = @ + amount]

\* TokenClient::burn(from, amount)
BurnError(st, token, from, amount, auth) ==
    IF ~Authorized(from, auth) THEN "ledger: holder not authorized"
    ELSE IF amount < 0 THEN "ledger: negative amount"
    ELSE IF st.balance[token][from] < amount THEN "ledger: insufficient balance"
    ELSE "ok"

Burn(st, token, from, amount) ==
    [st EXCEPT !.balance[token][from] = @ - amount]

\* ------------------------------------------------------------ entry points
\* Variant of register_asset: a code already registered keeps its metadata.
register_asset_keeps_first(st, asset_code, project_id, vintage_year, token, admin, auth) ==
    IF ~Authorized(admin, auth) THEN Abort(st, st, "unauthorized", <<>>)
    ELSE LET meta == CarbonAssetMeta(project_id, vintage_year, token, admin)
         IN Done([st EXCEPT !.assets = @ @@ (asset_code :> meta)], <<>>)

register_asset(st, asset_code, project_id, vintage_year, token, admin, auth) ==
    IF ~Authorized(admin, auth) THEN Abort(st, st, "unauthorized", <<>>)
    ELSE LET meta == CarbonAssetMeta(project_id, vintage_year, token, admin)
         IN Done([st EXCEPT !.assets = (asset_code :> meta) @@ @], <<>>)

\* Variant of mint_to_issuer: the stored admin's authorization is not asked.
mint_to_issuer_unchecked(st, asset_code, issuer, amount, auth) ==
    IF asset_code \notin DOMAIN st.assets
    THEN Abort(st, st, "asset not registered", <<>>)
    ELSE LET meta == st.assets[asset_code]
             call == <<LedgerCall("mint", meta.token, Engine, Engine, issuer, amount)>>
             err == MintError(st, meta.token, issuer, amount)
         IN IF err # "ok" THEN Abort(st, st, err, call)
            ELSE Done(Mint(st, meta.token, issuer, amount), call)

mint_to_issuer(st, asset_code, issuer, amount, auth) ==
    IF asset_code \notin DOMAIN st.assets
    THEN Abort(st, st, "asset not registered", <<>>)
    ELSE LET meta == st.assets[asset_code]
             call == <<LedgerCall("mint", meta.token, Engine, Engine, issuer, amount)>>
             err == MintError(st, meta.token, issuer, amount)
         IN IF ~Authorized(meta.admin, auth) THEN Abort(st, st, "unauthorized", <<>>)
            ELSE IF err # "ok" THEN Abort(st, st, err, call)
            ELSE Done(Mint(st, meta.token, issuer, amount), call)

\* Variant of retire: the event is published before the burn and stays
\* published when the burn fails.
retire_emits_before_burn(st, asset_code, from, amount, note, auth) ==
    IF asset_code \notin DOMAIN st.assets
    THEN Abort(st, st, "asset not registered", <<>>)
    ELSE LET meta == st.assets[asset_code]
             call == <<LedgerCall("burn", meta.token, from, from, from, amount)>>
             err == BurnError(st, meta.token, from, amount, auth)
             event == CarbonRetireEvent(asset_code, from, amount, meta.project_id,
                                        meta.vintage_year, note)
             emitted == [st EXCEPT !.events = Append(@, event)]
         IN IF ~Authorized(from, auth) THEN Abort(st, st, "unauthorized", <<>>)
            ELSE IF err # "ok" THEN [res |-> err, st |-> emitted, calls |-> call]
            ELSE Done(Burn(emitted, meta.token, from, amount), call)

retire(st, asset_code, from, amount, note, auth) ==
    IF asset_code \notin DOMAIN st.assets
    THEN Abort(st, st, "asset not registered", <<>>)
    ELSE LET meta == st.assets[asset_code]
             call == <<LedgerCall("burn", meta.token, from, from, from, amount)>>
             err == BurnError(st, meta.token, from, amount, auth)
             burned == Burn(st, meta.token, from, amount)
             event == CarbonRetireEvent(asset_code, from, amount, meta.project_id,
                                        meta.vintage_year, note)
         IN IF ~Authorized(from, auth) THEN Abort(st, st, "unauthorized", <<>>)
            ELSE IF err # "ok" THEN Abort(st, st, err, call)
            ELSE Done([burned EXCEPT !.events = Append(@, event)], call)

\* asset_info: a read; <<>> stands for the panic "asset not registered".
asset_info(st, asset_code) ==
    IF asset_code \in DOMAIN st.assets THEN <<st.assets[asset_code]>> ELSE <<>>

\* Variant of set_xml_token: changing the currency empties the listing book.
set_xml_token_resets_book(st, caller, xml, auth) ==
    IF ~Authorized(caller, auth) THEN Abort(st, st, "unauthorized", <<>>)
    ELSE Done([st EXCEPT !.xml_token = {xml}, !.listings = <<>>], <<>>)

\* The outcome of asset_info: read_asset's panic message, or "ok".
asset_info_res(st, asset_code) ==
    IF asset_info(st, asset_code) = <<>> THEN "asset not registered" ELSE "ok"

set_xml_token(st, caller, xml, auth) ==
    IF ~Authorized(caller, auth) THEN Abort(st, st, "unauthorized", <<>>)
    ELSE Done([st EXCEPT !.xml_token = {xml}], <<>>)

\* Variant of not_positive: no sign is refused.
any_sign(x) == FALSE

\* Variant of not_positive: zero passes.
negative_only(x) == x < 0

\* The sign check of list_asset and buy_with_xml: `if x <= 0 { panic!(..) }`.
not_positive(x) == x <= 0

\* Variant of list_asset: the amount left of a prior listing is added to the
\* new one.
list_asset_merges(st, seller, asset_code, amount, price, auth) ==
    IF ~Authorized(seller, auth) THEN Abort(st, st, "unauthorized", <<>>)
    ELSE IF asset_code \notin DOMAIN st.assets
         THEN Abort(st, st, "asset not registered", <<>>)
    ELSE IF not_positive(amount) THEN Abort(st, st, "amount must be positive", <<>>)
    ELSE IF not_positive(price) THEN Abort(st, st, "price must be positive", <<>>)
    ELSE LET key == <<asset_code, seller>>
             left == IF key \in DOMAIN st.listings THEN st.listings[key].amount ELSE 0
             listing == Listing(asset_code, seller, amount + left, price)
         IN Done([st EXCEPT !.listings = (key :> listing) @@ @], <<>>)

\* Variant of list_asset: the asset code need not be registered.
list_asset_any_code(st, seller, asset_code, amount, price, auth) ==
    IF ~Authorized(seller, auth) THEN Abort(st, st, "unauthorized", <<>>)
    ELSE IF not_positive(amount) THEN Abort(st, st, "amount must be positive", <<>>)
    ELSE IF not_positive(price) THEN Abort(st, st, "price must be positive", <<>>)
    ELSE LET key == <<asset_code, seller>>
             listing == Listing(asset_code, seller, amount, price)
         IN Done([st EXCEPT !.listings = (key :> listing) @@ @], <<>>)

list_asset(st, seller, asset_code, amount, price, auth) ==
    IF ~Authorized(seller, auth) THEN Abort(st, st, "unauthorized", <<>>)
    ELSE IF asset_code \notin DOMAIN st.assets
         THEN Abort(st, st, "asset not registered", <<>>)
    ELSE IF not_positive(amount) THEN Abort(st, st, "amount must be positive", <<>>)
    ELSE IF not_positive(price) THEN Abort(st, st, "price must be positive", <<>>)
    ELSE LET key == <<asset_code, seller>>
             listing == Listing(asset_code, seller, amount, price)
         IN Done([st EXCEPT !.listings = (key :> listing) @@ @], <<>>)

\* The storage read of a listing: <<>> when the key is absent.
get_listing(st, asset_code, seller) ==
    IF <<asset_code, seller>> \in DOMAIN st.listings
    THEN <<st.listings[<<asset_code, seller>>]>> ELSE <<>>

\* Variant of exceeds_listing: the amount is compared with the listing's price.
exceeds_listing_price(amount, listing) == amount > listing.price

\* Variant of exceeds_listing: the listed amount is not enforced.
exceeds_listing_never(amount, listing) == FALSE

\* `if amount > listing.amount { panic!("not enough listed amount") }`
exceeds_listing(amount, listing) == amount > listing.amount

\* Variant of exceeds_cap: the cap is never enforced.
exceeds_cap_never(cost, max_xml) == FALSE

\* `if cost_xml > max_xml { panic!("price exceeds max_xml") }`
exceeds_cap(cost, max_xml) == cost > max_xml

\* Variant of buy_checks: the amount is validated after the listing is read.
buy_checks_listing_first(st, buyer, asset_code, seller, amount, max_xml, auth) ==
    LET key == <<asset_code, seller>>
    IN IF ~Authorized(buyer, auth) THEN "unauthorized"
       ELSE IF key \notin DOMAIN st.listings THEN "listing not found"
       ELSE IF amount <= 0 THEN "amount must be positive"
       ELSE IF amount > st.listings[key].amount THEN "not enough listed amount"
       ELSE IF asset_code \notin DOMAIN st.assets THEN "asset not registered"
       ELSE IF st.xml_token = {} THEN "XML token not set"
       ELSE IF checked_mul(amount, st.listings[key].price) = <<>>
            THEN "overflow in price calc"
       ELSE IF checked_mul(amount, st.listings[key].price)[1] > max_xml
            THEN "price exceeds max_xml"
       ELSE "ok"

\* buy_with_xml up to the cap check: the panic message of the first check
\* that fails, "ok" when all pass.
buy_checks(st, buyer, asset_code, seller, amount, max_xml, auth) ==
    LET key == <<asset_code, seller>>
    IN IF ~Authorized(buyer, auth) THEN "unauthorized"
       ELSE IF not_positive(amount) THEN "amount must be positive"
       ELSE IF key \notin DOMAIN st.listings THEN "listing not found"
       ELSE IF exceeds_listing(amount, st.listings[key]) THEN "not enough listed amount"
       ELSE IF asset_code \notin DOMAIN st.assets THEN "asset not registered"
       ELSE IF st.xml_token = {} THEN "XML token not set"
       ELSE IF checked_mul(amount, st.listings[key].price) = <<>>
            THEN "overflow in price calc"
       ELSE IF exceeds_cap(checked_mul(amount, st.listings[key].price)[1], max_xml)
            THEN "price exceeds max_xml"
       ELSE "ok"

\* cost_xml of a buy whose checks passed.
cost_xml(listing, amount) == checked_mul(amount, listing.price)[1]

\* Variant of update_or_remove: the reduced entry is written back without
\* the subtraction.
update_or_remove_no_decrement(book, key, amount) ==
    LET left == book[key].amount - amount
    IN IF left > 0 THEN book
       ELSE [k \in DOMAIN book \ {key} |-> book[k]]

\* Variant of update_or_remove: an emptied entry is written back, not removed.
update_or_remove_keeps_zero(book, key, amount) ==
    LET left == book[key].amount - amount
    IN IF left >= 0 THEN [book EXCEPT ![key].amount = left]
       ELSE [k \in DOMAIN book \ {key} |-> book[k]]

\* Variant of update_or_remove: an emptied entry takes the whole book with it.
update_or_remove_clears_book(book, key, amount) ==
    LET left == book[key].amount - amount
    IN IF left > 0 THEN [book EXCEPT ![key].amount = left]
       ELSE <<>>

\* The listing book after a settled buy: the entry reduced, or removed.
update_or_remove(book, key, amount) ==
    LET left == book[key].amount - amount
    IN IF left > 0 THEN [book EXCEPT ![key].amount = left]
       ELSE [k \in DOMAIN book \ {key} |-> book[k]]

buy_with_xml(st, buyer, asset_code, seller, amount, max_xml, auth) ==
    LET pre == buy_checks(st, buyer, asset_code, seller, amount, max_xml, auth)
    IN IF pre # "ok" THEN Abort(st, st, pre, <<>>)
       ELSE
       LET key == <<asset_code, seller>>
           xml == CHOOSE t \in st.xml_token : TRUE
           carbon == st.assets[asset_code].token
           cost == cost_xml(st.listings[key], amount)
           call1 == LedgerCall("transfer_from", xml, buyer, buyer, seller, cost)
           call2 == LedgerCall("transfer_from", carbon, seller, seller, buyer, amount)
           err1 == TransferFromError(st, xml, buyer, buyer, cost, auth)
           st1 == TransferFrom(st, xml, buyer, buyer, seller, cost)
           err2 == TransferFromError(st1, carbon, seller, seller, amount, auth)
           st2 == TransferFrom(st1, carbon, seller, seller, buyer, amount)
       IN IF err1 # "ok" THEN Abort(st, st, err1, <<call1>>)
          ELSE IF err2 # "ok" THEN Abort(st, st1, err2, <<call1, call2>>)
          ELSE Done([st2 EXCEPT !.listings = update_or_remove(@, key, amount)],
                    <<call1, call2>>)

\* ----------------------------------------------------------------- inputs
Admins == {"A1", "I1"}
Sellers == {"I1"}
Buyers == {"B1", "I1"}
MetaInputs ==
    {CarbonAssetMeta(1, 2023, "CRB", "A1"), CarbonAssetMeta(2, 2024, "CRB", "I1")}
MintAmounts == {0 - 1, 1000 * Scale}
ListAmounts == {0 - 1, 0, 500 * Scale}
ListPrices == {0, 2 * Scale, I128_MAX}
BuyAmounts == {0, 200 * Scale, 500 * Scale, 1000 * Scale}
PriceCaps == {450 * Scale, I128_MAX}
RetireAmounts == {200 * Scale}
Notes == {"offset 2024"}
XmlFunds == 1000 * Scale * Scale

AuthSets == SUBSET Users

RegisterInputs ==
    {x \in [asset_code : Codes, meta : MetaInputs, auth : AuthSets] :
        x.auth \subseteq Admins /\ Cardinality(x.auth) <= 1}

MintInputs ==
    {x \in [asset_code : Codes, issuer : Sellers, amount : MintAmounts, auth : AuthSets] :
        x.auth \subseteq Admins /\ Cardinality(x.auth) <= 1}

RetireInputs ==
    {x \in [asset_code : {"VCS001"}, from : Sellers, amount : RetireAmounts, note : Notes,
            auth : AuthSets] : x.auth \subseteq {x.from}}

SetXmlInputs ==
    {x \in [caller : {"A1"}, xml_token : {"XML"}, auth : AuthSets] :
        x.auth \subseteq {x.caller}}

ListInputs ==
    {x \in [seller : Sellers, asset_code : Codes, amount : ListAmounts,
            price : ListPrices, auth : AuthSets] : x.auth \subseteq {x.seller}}

BuyInputs ==
    {x \in [buyer : Buyers, asset_code : Codes, seller : Sellers, amount : BuyAmounts,
            max_xml : PriceCaps, auth : AuthSets] :
        x.auth \in {{}, {x.buyer}, {x.buyer, x.seller}}}

Register(st, x) ==
    register_asset(st, x.asset_code, x.meta.project_id, x.meta.vintage_year,
                   x.meta.token, x.meta.admin, x.auth)

MintTo(st, x) == mint_to_issuer(st, x.asset_code, x.issuer, x.amount, x.auth)

RetireOf(st, x) == retire(st, x.asset_code, x.from, x.amount, x.note, x.auth)

SetXml(st, x) == set_xml_token(st, x.caller, x.xml_token, x.auth)

List(st, x) == list_asset(st, x.seller, x.asset_code, x.amount, x.price, x.auth)

Buy(st, x) ==
    buy_with_xml(st, x.buyer, x.asset_code, x.seller, x.amount, x.max_xml, x.auth)

\* DataKey::Listing(asset_code, seller) of a list_asset or buy_with_xml call.
KeyOf(x) == <<x.asset_code, x.seller>>

\* The history of the listing book after a call, from the call's arguments
\* and outcome alone: a committed list_asset opens a new count for its key, a
\* committed buy_with_xml adds its amount to the units settled under its key.
Tally(op, x, out) ==
    IF out.res # "ok" THEN tally
    ELSE IF op = "list_asset"
         THEN (KeyOf(x) :> [listed |-> x.amount, settled |-> 0]) @@ tally
    ELSE IF op = "buy_with_xml"
         THEN [tally EXCEPT ![KeyOf(x)].settled = @ + x.amount]
    ELSE tally

\* What is kept of a call: its entry point, its outcome, how many ledger calls
\* it attempted and, when it committed, its arguments.
Call(op, x, out) ==
    [op |-> op, res |-> out.res, ncalls |-> Len(out.calls),
     args |-> IF out.res = "ok" THEN <<x>> ELSE <<>>]

Commit(op, x, out) ==
    /\ assets' = out.st.assets
    /\ xml_token' = out.st.xml_token
    /\ listings' = out.st.listings
    /\ balance' = out.st.balance
    /\ allowance' = out.st.allowance
    /\ events' = out.st.events
    /\ last' = Call(op, x, out)
    /\ tally' = Tally(op, x, out)

\* The (from, spender) pairs the ledgers keep an allowance for: each user's
\* grant to itself and to the contract.
Grants == {p \in Users \X Holders : p[2] \in {p[1], Engine}}

\* Storage starts empty.  On the ledgers, B1 holds settlement currency; every
\* user has approved the contract as spender, as the entry points' comments
\* ask, and B1 (settlement currency) and I1 (asset) have approved themselves.
Init ==
    /\ assets = <<>>
    /\ xml_token = {}
    /\ listings = <<>>
    /\ balance = [t \in Tokens |-> [h \in Holders |->
                    IF t = "XML" /\ h = "B1" THEN XmlFunds ELSE 0]]
    /\ allowance = [t \in Tokens |-> [p \in Grants |->
                    IF p[1] \in Users /\ p[2] = Engine THEN I128_MAX
                    ELSE IF <<t, p>> \in {<<"XML", <<"B1", "B1">>>>, <<"CRB", <<"I1", "I1">>>>}
                         THEN I128_MAX ELSE 0]]
    /\ events = <<>>
    /\ last = [op |-> "init", res |-> "ok", ncalls |-> 0, args |-> <<>>]
    /\ tally = <<>>

RegisterAsset ==
    \E x \in RegisterInputs : Commit("register_asset", x, Register(St, x))

MintToIssuer ==
    \E x \in MintInputs :
        /\ balance["CRB"][x.issuer] = 0
        /\ Commit("mint_to_issuer", x, MintTo(St, x))

Retire ==
    \E x \in RetireInputs :
        /\ Len(events) < MaxEvents
        /\ Commit("retire", x, RetireOf(St, x))

SetXmlToken ==
    \E x \in SetXmlInputs : Commit("set_xml_token", x, SetXml(St, x))

ListAsset ==
    \E x \in ListInputs : Commit("list_asset", x, List(St, x))

BuyWithXml ==
    \E x \in BuyInputs : Commit("buy_with_xml", x, Buy(St, x))

Next ==
    \/ RegisterAsset
    \/ MintToIssuer
    \/ Retire
    \/ SetXmlToken
    \/ ListAsset
    \/ BuyWithXml

Spec == Init /\ [][Next]_vars

TypeOK ==
    /\ DOMAIN assets \subseteq Codes
    /\ Cardinality(xml_token) <= 1
    /\ DOMAIN listings \subseteq Codes \X Users

\* ------------------------------------------------- a second set of inputs
\* MarketSpec runs the same entry points from the same initial state over
\* other inputs: one asset code, whose units the admin mints to the issuer or
\* to the contract's own address, two positive listing amounts, so that a
\* listing can be replaced by a smaller one, and several retirements.
MaxRetires == 2

MarketRegisterInputs ==
    {x \in RegisterInputs : x.asset_code = "VCS001" /\ x.meta.admin = "A1"}

MarketMintInputs ==
    [asset_code : {"VCS001"}, issuer : Sellers \cup {Engine}, amount : {1000 * Scale},
     auth : {{"A1"}}]

MarketRetireInputs ==
    [asset_code : {"VCS001"}, from : Sellers, amount : RetireAmounts, note : Notes,
     auth : {{}, {"I1"}}]

MarketSetXmlInputs == {x \in SetXmlInputs : x.auth = {x.caller}}

MarketListInputs ==
    [seller : Sellers, asset_code : {"VCS001"}, amount : {300 * Scale, 500 * Scale},
     price : {2 * Scale}, auth : {{"I1"}}]

MarketBuyInputs ==
    {x \in [buyer : Buyers, asset_code : {"VCS001"}, seller : Sellers,
            amount : {200 * Scale, 300 * Scale, 500 * Scale}, max_xml : {I128_MAX},
            auth : AuthSets] : x.auth \in {{x.buyer}, {x.buyer, x.seller}}}

MarketRegisterAsset ==
    \E x \in MarketRegisterInputs : Commit("register_asset", x, Register(St, x))

MarketMintToIssuer ==
    \E x \in MarketMintInputs :
        /\ balance["CRB"][x.issuer] = 0
        /\ Commit("mint_to_issuer", x, MintTo(St, x))

MarketRetire ==
    \E x \in MarketRetireInputs :
        /\ Len(events) < MaxRetires
        /\ Commit("retire", x, RetireOf(St, x))

MarketSetXmlToken ==
    \E x \in MarketSetXmlInputs : Commit("set_xml_token", x, SetXml(St, x))

MarketListAsset ==
    \E x \in MarketListInputs : Commit("list_asset", x, List(St, x))

MarketBuyWithXml ==
    \E x \in MarketBuyInputs : Commit("buy_with_xml", x, Buy(St, x))

MarketNext ==
    \/ MarketRegisterAsset
    \/ MarketMintToIssuer
    \/ MarketRetire
    \/ MarketSetXmlToken
    \/ MarketListAsset
    \/ MarketBuyWithXml

MarketSpec == Init /\ [][MarketNext]_vars

\* ------------------------------------------------------------ error kinds
\* The error kind of an outcome, by the panic message that produced it.
ErrorKind(res) ==
    CASE res = "ok" -> "None"
      [] res = "unauthorized" -> "Unauthorized"
      [] res \in {"amount must be positive", "price must be positive"} -> "InvalidArgument"
      [] res \in {"listing not found", "asset not registered"} -> "NotFound"
      [] res = "not enough listed amount" -> "InsufficientLiquidity"
      [] res = "XML token not set" -> "NotConfigured"
      [] res = "overflow in price calc" -> "ArithmeticOverflow"
      [] res = "price exceeds max_xml" -> "PriceExceedsCap"
      [] OTHER -> "Ledger"

\* amount * price leaves the signed range (both positive), without forming
\* the product.
Overflows(amount, price) == amount > I128_MAX \div price

\* The first six preconditions of a buy hold: signed by the buyer, positive
\* amount, listing present and large enough, asset registered, currency set.
BuyReachesPricing(x) ==
    /\ x.buyer \in x.auth
    /\ x.amount > 0
    /\ KeyOf(x) \in DOMAIN listings
    /\ x.amount <= listings[KeyOf(x)].amount
    /\ x.asset_code \in DOMAIN assets
    /\ xml_token # {}

\* ------------------------------------------------------------------ claims

\* The buy of the example scenario, signed by both parties.
C1_Buy ==
    [buyer |-> "B1", asset_code |-> "VCS001", seller |-> "I1", amount |-> 200 * Scale,
     max_xml |-> 450 * Scale, auth |-> {"B1", "I1"}]

\* The example scenario before the buy, with funds and allowances in place.
C1_Setup ==
    /\ "VCS001" \in DOMAIN assets
    /\ xml_token = {"XML"}
    /\ balance["CRB"]["I1"] = 1000 * Scale
    /\ <<"VCS001", "I1">> \in DOMAIN listings
    /\ listings[<<"VCS001", "I1">>].amount = 500 * Scale
    /\ listings[<<"VCS001", "I1">>].price = 2 * Scale
    /\ allowance["CRB"][<<"I1", "I1">>] >= 200 * Scale
    /\ allowance["XML"][<<"B1", "B1">>] >= 400 * Scale
    /\ balance["XML"]["B1"] >= 400 * Scale

\* C1 as stated: in the example scenario (VCS001 registered, 1000.0 minted to
\* I1, I1 lists 500.0 at unit price 2.0, all in fixed point), the buy by B1 of
\* 200.0 with cap 450.0 succeeds at cost 400.0: I1 gains 400.0 of settlement
\* currency, B1 gains 200.0 asset units and 300.0 stay listed.
C1_ExampleScenario ==
    C1_Setup =>
        LET o == Buy(St, C1_Buy)
        IN /\ o.res = "ok"
           /\ o.calls[1].amount = 400 * Scale
           /\ o.st.balance["XML"]["I1"] = balance["XML"]["I1"] + 400 * Scale
           /\ o.st.balance["CRB"]["B1"] = balance["CRB"]["B1"] + 200 * Scale
           /\ o.st.listings[<<"VCS001", "I1">>].amount = 300 * Scale

\* The kind of the first precondition of a buy that fails, in the stated order.
C2_FirstFailure(x) ==
    IF x.buyer \notin x.auth THEN "Unauthorized"
    ELSE IF x.amount <= 0 THEN "InvalidArgument"
    ELSE IF KeyOf(x) \notin DOMAIN listings THEN "NotFound"
    ELSE IF x.amount > listings[KeyOf(x)].amount THEN "InsufficientLiquidity"
    ELSE IF x.asset_code \notin DOMAIN assets THEN "NotFound"
    ELSE IF xml_token = {} THEN "NotConfigured"
    ELSE IF Overflows(x.amount, listings[KeyOf(x)].price) THEN "ArithmeticOverflow"
    ELSE IF x.amount * listings[KeyOf(x)].price > x.max_xml THEN "PriceExceedsCap"
    ELSE "None"

\* C2: when a buy fails a precondition, the error is that of the first failing
\* one in the order Unauthorized, InvalidArgument, NotFound (listing),
\* InsufficientLiquidity, NotFound (asset), NotConfigured, ArithmeticOverflow,
\* PriceExceedsCap, and nothing changes.
C2_ErrorOrder ==
    \A x \in BuyInputs :
        LET first == C2_FirstFailure(x)
            o == Buy(St, x)
        IN first # "None" => (ErrorKind(o.res) = first /\ o.st = St)

\* A buy was refused for want of the buyer's signature while the listing book
\* was empty: the first and the third precondition failed together.
C2_Witness ==
    /\ last.op = "buy_with_xml"
    /\ last.res = "unauthorized"
    /\ listings = <<>>

\* C3: a buy in which a ledger transfer fails has no effect; in particular
\* when the settlement-currency leg was performed and the asset leg fails,
\* balances, allowances and the listing are as before the call.
C3_TransferFailureAborts ==
    \A x \in BuyInputs :
        LET o == Buy(St, x)
        IN ErrorKind(o.res) = "Ledger" => o.st = St

\* A buy got through its first transfer and failed in the second.
C3_Witness ==
    /\ last.op = "buy_with_xml"
    /\ last.ncalls = 2
    /\ ErrorKind(last.res) = "Ledger"

\* C4 as stated: a buy whose eight preconditions hold, signed by the buyer
\* alone, with buyer and seller each having granted the contract a sufficient
\* allowance (and holding the funds), succeeds.
C4_BuyerProofSuffices ==
    \A x \in BuyInputs :
        ( /\ x.auth = {x.buyer}
          /\ buy_checks(St, x.buyer, x.asset_code, x.seller, x.amount, x.max_xml,
                        x.auth) = "ok"
          /\ LET xml == CHOOSE t \in xml_token : TRUE
                 carbon == assets[x.asset_code].token
                 cost == x.amount * listings[KeyOf(x)].price
             IN /\ allowance[xml][<<x.buyer, Engine>>] >= cost
                /\ allowance[carbon][<<x.seller, Engine>>] >= x.amount
                /\ balance[xml][x.buyer] >= cost
                /\ balance[carbon][x.seller] >= x.amount )
        => Buy(St, x).res = "ok"

\* C5: after a successful buy of less than the listed amount, the listing read
\* under the same (code, seller) has the old amount less the bought amount, and
\* the old price.
C5_PartialBuyReduces ==
    \A x \in BuyInputs :
        LET o == Buy(St, x)
        IN (o.res = "ok" /\ x.amount < listings[KeyOf(x)].amount) =>
            get_listing(o.st, x.asset_code, x.seller) =
                <<Listing(x.asset_code, x.seller,
                          listings[KeyOf(x)].amount - x.amount,
                          listings[KeyOf(x)].price)>>

\* The last call was a committed buy and its listing is still in the book.
C5_Witness ==
    /\ last.op = "buy_with_xml"
    /\ last.res = "ok"
    /\ KeyOf(last.args[1]) \in DOMAIN listings
    /\ listings[KeyOf(last.args[1])].amount = 500 * Scale - last.args[1].amount

\* After a buy of the whole listed amount: no listing, and NotFound for buys.
C6_FullBuyState ==
    \A x \in BuyInputs :
        LET o == Buy(St, x)
        IN (o.res = "ok" /\ x.amount = listings[KeyOf(x)].amount) =>
            /\ get_listing(o.st, x.asset_code, x.seller) = <<>>
            /\ \A y \in BuyInputs :
                (KeyOf(y) = KeyOf(x) /\ y.buyer \in y.auth /\ y.amount > 0) =>
                    /\ Buy(o.st, y).res = "listing not found"
                    /\ ErrorKind(Buy(o.st, y).res) = "NotFound"

\* A key enters the listing book only by a committed list_asset for it.
C6_Relisted ==
    \A k \in Codes \X Users :
        (k \notin DOMAIN listings /\ k \in DOMAIN listings') =>
            /\ last'.op = "list_asset"
            /\ last'.res = "ok"
            /\ KeyOf(last'.args[1]) = k

\* C6: after a successful buy of the whole listed amount the listing is gone:
\* the read finds nothing, a further signed buy of a positive amount under the
\* same key fails with NotFound, and the key comes back only by a committed
\* list_asset of that seller for that code.
C6_FullBuyRemoves == [](C6_FullBuyState) /\ [][C6_Relisted]_vars

\* The last call was a committed buy and its listing is no longer in the book.
C6_Witness ==
    /\ last.op = "buy_with_xml"
    /\ last.res = "ok"
    /\ KeyOf(last.args[1]) \notin DOMAIN listings

\* C7: a buy (signed by the buyer) of more than the listed amount fails with
\* InsufficientLiquidity, attempts no transfer and changes nothing.
C7_OverAskRefused ==
    \A x \in BuyInputs :
        ( /\ x.buyer \in x.auth
          /\ KeyOf(x) \in DOMAIN listings
          /\ x.amount > listings[KeyOf(x)].amount ) =>
            LET o == Buy(St, x)
            IN /\ ErrorKind(o.res) = "InsufficientLiquidity"
               /\ o.calls = <<>>
               /\ o.st = St

\* A buy was refused for asking more than is listed.
C7_Witness ==
    /\ last.op = "buy_with_xml"
    /\ last.res = "not enough listed amount"
    /\ last.ncalls = 0

\* C8: a buy that reaches the cost computation with amount * price outside
\* the signed range fails with ArithmeticOverflow, whatever the cap; it
\* attempts no transfer and writes nothing.
C8_OverflowRefused ==
    \A x \in BuyInputs :
        (BuyReachesPricing(x) /\ Overflows(x.amount, listings[KeyOf(x)].price)) =>
            LET o == Buy(St, x)
            IN /\ ErrorKind(o.res) = "ArithmeticOverflow"
               /\ o.calls = <<>>
               /\ o.st = St

\* A buy was refused because its cost overflows.
C8_Witness ==
    /\ last.op = "buy_with_xml"
    /\ last.res = "overflow in price calc"
    /\ last.ncalls = 0

\* C9: a buy whose cost amount * listing.price exceeds the cap fails with
\* PriceExceedsCap and attempts no transfer; a successful buy pulls from the
\* buyer exactly amount * (stored listing price), which is at most the cap.
C9_CapBoundsCost ==
    \A x \in BuyInputs :
        LET o == Buy(St, x)
        IN /\ ( /\ BuyReachesPricing(x)
                /\ ~Overflows(x.amount, listings[KeyOf(x)].price)
                /\ x.amount * listings[KeyOf(x)].price > x.max_xml ) =>
                    /\ ErrorKind(o.res) = "PriceExceedsCap"
                    /\ o.calls = <<>>
                    /\ o.st = St
           /\ o.res = "ok" =>
                LET xml == CHOOSE t \in xml_token : TRUE
                    cost == x.amount * listings[KeyOf(x)].price
                IN /\ cost <= x.max_xml
                   /\ o.calls[1] =
                        LedgerCall("transfer_from", xml, x.buyer, x.buyer, x.seller, cost)
                   /\ (x.buyer # x.seller /\ xml # assets[x.asset_code].token) =>
                        o.st.balance[xml][x.buyer] = balance[xml][x.buyer] - cost

\* A buy was refused because its cost exceeds the buyer's cap.
C9_Witness ==
    /\ last.op = "buy_with_xml"
    /\ last.res = "price exceeds max_xml"
    /\ last.ncalls = 0

\* C10 as stated: a list_asset signed by the seller with amount <= 0 or
\* price <= 0 fails with InvalidArgument, registered code or not, and leaves
\* the listing book unchanged.
C10_AlwaysInvalidArgument ==
    \A x \in ListInputs :
        (x.seller \in x.auth /\ (x.amount <= 0 \/ x.price <= 0)) =>
            LET o == List(St, x)
            IN /\ ErrorKind(o.res) = "InvalidArgument"
               /\ o.st.listings = listings

\* C10 as amended: such a call always fails and leaves the listing book
\* unchanged; the error is InvalidArgument when the code is registered and
\* NotFound when it is not, registration being checked first.
C10_InvalidListingRefused ==
    \A x \in ListInputs :
        (x.seller \in x.auth /\ (x.amount <= 0 \/ x.price <= 0)) =>
            LET o == List(St, x)
            IN /\ ErrorKind(o.res) =
                    IF x.asset_code \in DOMAIN assets THEN "InvalidArgument"
                    ELSE "NotFound"
               /\ o.st.listings = listings

\* A list_asset for a registered code was refused for its amount or price.
C10_Witness ==
    /\ last.op = "list_asset"
    /\ ErrorKind(last.res) = "InvalidArgument"

\* The step is a committed call of entry point op under the key k.
C11_CommittedAt(op, k) ==
    /\ last'.op = op
    /\ last'.res = "ok"
    /\ KeyOf(last'.args[1]) = k

\* The step removes the listing under k, or makes its amount smaller.
C11_Removed(k) == k \in DOMAIN listings /\ k \notin DOMAIN listings'

C11_Reduced(k) ==
    /\ k \in DOMAIN listings
    /\ k \in DOMAIN listings'
    /\ listings'[k].amount < listings[k].amount

\* C11 as stated: a step after which the amount stored under a (code, seller)
\* key is smaller than before, or the listing is gone, is a successful buy
\* against that key.
C11_DecreaseOnlyByBuy ==
    [][\A k \in Codes \X Users :
        (C11_Removed(k) \/ C11_Reduced(k)) => C11_CommittedAt("buy_with_xml", k)]_vars

\* C11 as amended: a listing disappears only by a successful buy against its
\* key, and its stored amount becomes smaller only by a successful buy
\* against its key or by a successful list_asset of its seller for its code
\* that supplies a smaller amount.
C11_DecreaseByBuyOrRelist ==
    [][\A k \in Codes \X Users :
        /\ C11_Removed(k) => C11_CommittedAt("buy_with_xml", k)
        /\ C11_Reduced(k) =>
            \/ C11_CommittedAt("buy_with_xml", k)
            \/ /\ C11_CommittedAt("list_asset", k)
               /\ listings'[k].amount = last'.args[1].amount]_vars

\* A listing of 500.0 is in the book and a list_asset of its seller for its
\* code replaces it by one of a smaller amount.
C11_Witness ==
    \E x \in MarketListInputs :
        /\ KeyOf(x) \in DOMAIN listings
        /\ listings[KeyOf(x)].amount = 500 * Scale
        /\ List(St, x).res = "ok"
        /\ List(St, x).st.listings[KeyOf(x)].amount < listings[KeyOf(x)].amount

\* Whatever is stored, a list_asset that succeeds leaves its arguments under
\* its key and the other keys as they were.
C12_ListState ==
    \A x \in ListInputs :
        LET o == List(St, x)
        IN o.res = "ok" =>
            /\ get_listing(o.st, x.asset_code, x.seller) =
                    <<Listing(x.asset_code, x.seller, x.amount, x.price)>>
            /\ \A k \in (Codes \X Users) \ {KeyOf(x)} :
                    get_listing(o.st, k[1], k[2]) = get_listing(St, k[1], k[2])

\* A step that is a committed list_asset stores its arguments under its key
\* and changes no other key.
C12_ListStep ==
    (last'.op = "list_asset" /\ last'.res = "ok") =>
        LET x == last'.args[1]
        IN /\ KeyOf(x) \in DOMAIN listings'
           /\ listings'[KeyOf(x)] = Listing(x.asset_code, x.seller, x.amount, x.price)
           /\ \A k \in (Codes \X Users) \ {KeyOf(x)} :
                get_listing(St, k[1], k[2])' = get_listing(St, k[1], k[2])

\* C12: a successful list_asset replaces any prior listing of its (code,
\* seller): the read under that key then returns exactly the supplied amount
\* and price, nothing of the prior listing being merged in, and the listings
\* under every other key are as before.
C12_ListReplaces == [](C12_ListState) /\ [][C12_ListStep]_vars

\* A listing partly bought (300.0 left) is replaced by a list_asset with
\* another amount and another price, while another key holds a listing.
C12_Witness ==
    \E x \in ListInputs :
        /\ KeyOf(x) \in DOMAIN listings
        /\ listings[KeyOf(x)].amount = 300 * Scale
        /\ listings[KeyOf(x)].price # x.price
        /\ DOMAIN listings # {KeyOf(x)}
        /\ List(St, x).res = "ok"
        /\ List(St, x).st.listings[KeyOf(x)].amount = 500 * Scale

\* A register call signed by its admin succeeds, whoever the stored admin is;
\* lookup of its code then returns exactly its metadata, and the other codes
\* are as before.  A code absent from the registry is looked up with NotFound.
C13_RegisterState ==
    /\ \A x \in RegisterInputs :
        LET o == Register(St, x)
        IN /\ x.meta.admin \in x.auth => o.res = "ok"
           /\ o.res = "ok" =>
                /\ asset_info(o.st, x.asset_code) = <<x.meta>>
                /\ asset_info_res(o.st, x.asset_code) = "ok"
                /\ \A c \in Codes \ {x.asset_code} :
                        asset_info(o.st, c) = asset_info(St, c)
    /\ \A c \in Codes :
        c \notin DOMAIN assets =>
            /\ asset_info(St, c) = <<>>
            /\ ErrorKind(asset_info_res(St, c)) = "NotFound"

\* What lookup returns for a code changes only by a committed register of
\* that code, to the metadata that call supplied.
C13_RegisterStep ==
    \A c \in Codes :
        asset_info(St, c)' # asset_info(St, c) =>
            /\ last'.op = "register_asset"
            /\ last'.res = "ok"
            /\ last'.args[1].asset_code = c
            /\ asset_info(St, c)' = <<last'.args[1].meta>>

\* C13: lookup of a code returns exactly the metadata written by the last
\* successful register of that code, however many there were; a register
\* succeeds on the proof of the admin it supplies alone, none being asked of
\* the stored admin; lookup of a never-registered code fails with NotFound.
C13_LookupReturnsLastRegistered == [](C13_RegisterState) /\ [][C13_RegisterStep]_vars

\* A code registered under one admin can be registered again by another
\* admin, signing alone, with other metadata.
C13_Witness ==
    \E x \in RegisterInputs :
        /\ x.asset_code \in DOMAIN assets
        /\ assets[x.asset_code].admin # x.meta.admin
        /\ x.auth = {x.meta.admin}
        /\ Register(St, x).res = "ok"
        /\ asset_info(Register(St, x).st, x.asset_code) = <<x.meta>>
        /\ asset_info(St, x.asset_code) # <<x.meta>>

\* The outcome of every mint input in a state, and of a mint signed by the
\* stored admin once a register of another admin has gone before it.
C14_MintState ==
    \A x \in MintInputs :
        LET o == MintTo(St, x)
        IN /\ x.asset_code \notin DOMAIN assets =>
                (ErrorKind(o.res) = "NotFound" /\ o.calls = <<>> /\ o.st = St)
           /\ (x.asset_code \in DOMAIN assets /\ assets[x.asset_code].admin \notin x.auth) =>
                (ErrorKind(o.res) = "Unauthorized" /\ o.calls = <<>> /\ o.st = St)
           /\ o.st # St => (o.res = "ok" /\ assets[x.asset_code].admin \in x.auth)
           /\ \A r \in RegisterInputs :
                ( /\ r.asset_code = x.asset_code
                  /\ x.asset_code \in DOMAIN assets
                  /\ r.meta.admin # assets[x.asset_code].admin
                  /\ x.auth = {assets[x.asset_code].admin}
                  /\ Register(St, r).res = "ok" ) =>
                    /\ ErrorKind(MintTo(Register(St, r).st, x).res) = "Unauthorized"
                    /\ MintTo(Register(St, r).st, x).st = Register(St, r).st

\* A step that is a committed mint is signed by the admin stored for its code
\* and credits its amount to its recipient.
C14_MintStep ==
    (last'.op = "mint_to_issuer" /\ last'.res = "ok") =>
        LET x == last'.args[1]
        IN /\ x.asset_code \in DOMAIN assets
           /\ assets[x.asset_code].admin \in x.auth
           /\ balance'[assets[x.asset_code].token][x.issuer] =
                balance[assets[x.asset_code].token][x.issuer] + x.amount

\* C14: a mint for an unregistered code fails with NotFound; for a registered
\* code it takes effect only when signed by the admin stored for the code,
\* and otherwise fails with Unauthorized, minting nothing; once a register
\* has changed the stored admin, the previous admin's signature fails.
C14_MintNeedsStoredAdmin == [](C14_MintState) /\ [][C14_MintStep]_vars

\* A mint signed by the stored admin has just taken effect, and the same call
\* fails once another admin has registered the code again.
C14_Witness ==
    /\ last.op = "mint_to_issuer"
    /\ last.res = "ok"
    /\ balance["CRB"][last.args[1].issuer] > 0
    /\ \E r \in RegisterInputs :
        /\ r.asset_code = last.args[1].asset_code
        /\ r.meta.admin \notin last.args[1].auth
        /\ Register(St, r).res = "ok"
        /\ MintTo(Register(St, r).st, last.args[1]).res = "unauthorized"

\* A committed retire appends one record, made of its arguments and of the
\* registered project id and vintage year, and burns its amount; a retire
\* that fails (code not registered, holder's signature missing, burn refused)
\* appends nothing and burns nothing.
C15_RetireState ==
    \A x \in MarketRetireInputs :
        LET o == RetireOf(St, x)
        IN /\ o.res = "ok" =>
                /\ o.st.events =
                      Append(events,
                             CarbonRetireEvent(x.asset_code, x.from, x.amount,
                                               assets[x.asset_code].project_id,
                                               assets[x.asset_code].vintage_year, x.note))
                /\ o.st.balance[assets[x.asset_code].token][x.from] =
                      balance[assets[x.asset_code].token][x.from] - x.amount
           /\ o.res # "ok" => o.st = St
           /\ x.asset_code \notin DOMAIN assets => ErrorKind(o.res) = "NotFound"
           /\ (x.asset_code \in DOMAIN assets /\ x.from \notin x.auth) =>
                ErrorKind(o.res) = "Unauthorized"
           /\ ( /\ x.asset_code \in DOMAIN assets
                /\ x.from \in x.auth
                /\ balance[assets[x.asset_code].token][x.from] < x.amount ) =>
                ErrorKind(o.res) = "Ledger"

\* A step adds one record when it is a committed retire, and none otherwise.
C15_RetireStep ==
    Len(events') =
        Len(events) + (IF last'.op = "retire" /\ last'.res = "ok" THEN 1 ELSE 0)

\* C15: retire emits exactly one record per successful call, carrying the
\* asset code, the holder, the burned amount, the registered project id and
\* vintage year and the note; a failed retire emits none and burns nothing;
\* so, from none at the start, the records number the successful retires.
C15_OneRecordPerRetire ==
    /\ events = <<>>
    /\ [](C15_RetireState)
    /\ [][C15_RetireStep]_vars

\* Two retires have committed, the second being the last call; its record is
\* the last one.
C15_Witness ==
    /\ last.op = "retire"
    /\ last.res = "ok"
    /\ Len(events) >= 2
    /\ events[Len(events)].amount = last.args[1].amount
    /\ events[Len(events)].note = last.args[1].note

\* C16: every listing stored in the listing book has amount > 0 and
\* price > 0.
C16_ListingsPositive ==
    \A k \in DOMAIN listings : listings[k].amount > 0 /\ listings[k].price > 0

\* A committed buy has left 100.0 of a listing in the book.
C16_Witness ==
    /\ last.op = "buy_with_xml"
    /\ last.res = "ok"
    /\ \E k \in DOMAIN listings : listings[k].amount = 100 * Scale

\* The units of a ledger, summed over the holders in hs.
RECURSIVE C17_Sum(_, _)
C17_Sum(bal, hs) ==
    IF hs = {} THEN 0
    ELSE LET h == CHOOSE z \in hs : TRUE IN bal[h] + C17_Sum(bal, hs \ {h})

C17_Supply(bal) == C17_Sum(bal, Holders)

\* A committed buy moves its cost from the buyer to the seller on the
\* settlement ledger and its amount from the seller to the buyer on the asset
\* ledger; every other balance, the contract's included, and both supplies
\* are as before.
C17_BuyConserves ==
    \A x \in MarketBuyInputs :
        LET o == Buy(St, x)
        IN o.res = "ok" =>
            LET xml == CHOOSE t \in xml_token : TRUE
                carbon == assets[x.asset_code].token
                cost == x.amount * listings[KeyOf(x)].price
            IN /\ \A h \in Holders :
                    o.st.balance[xml][h] =
                        balance[xml][h] - (IF h = x.buyer THEN cost ELSE 0)
                                        + (IF h = x.seller THEN cost ELSE 0)
               /\ \A h \in Holders :
                    o.st.balance[carbon][h] =
                        balance[carbon][h] - (IF h = x.seller THEN x.amount ELSE 0)
                                           + (IF h = x.buyer THEN x.amount ELSE 0)
               /\ \A t \in Tokens :
                    /\ C17_Supply(o.st.balance[t]) = C17_Supply(balance[t])
                    /\ o.st.balance[t][Engine] = balance[t][Engine]

\* C17 as stated: the contract's own balance is zero on every ledger, and a
\* successful buy conserves both supplies, changing only the buyer's and the
\* seller's balances.
C17_EngineHoldsNothing ==
    /\ \A t \in Tokens : balance[t][Engine] = 0
    /\ C17_BuyConserves

\* The contract's own balance changes only by a committed mint that names the
\* contract as recipient.
C17_EngineStep ==
    \A t \in Tokens :
        balance'[t][Engine] # balance[t][Engine] =>
            /\ last'.op = "mint_to_issuer"
            /\ last'.res = "ok"
            /\ last'.args[1].issuer = Engine

\* C17 as amended: the contract's balance on a ledger changes only by a
\* successful mint whose recipient is the contract's own address, so it is
\* zero as long as no such mint was made, and no buy changes it; a successful
\* buy conserves both supplies, changing only the buyer's and the seller's
\* balances.
C17_BuysNonCustodial == [](C17_BuyConserves) /\ [][C17_EngineStep]_vars

\* A buy has committed while the contract held units minted to it.
C17_Witness ==
    /\ last.op = "buy_with_xml"
    /\ last.res = "ok"
    /\ balance["CRB"][Engine] > 0
    /\ balance["CRB"][last.args[1].buyer] >= last.args[1].amount

\* The amount left under a key: that of its listing, zero when it has none.
C18_Remaining(k) == IF k \in DOMAIN listings THEN listings[k].amount ELSE 0

\* C18: for every (code, seller), the units settled by the buys made since
\* the last list_asset for the key never exceed the amount that list_asset
\* set, and the amount left in the book is that amount less the units settled.
C18_SettledWithinListed ==
    /\ DOMAIN listings \subseteq DOMAIN tally
    /\ \A k \in DOMAIN tally :
        /\ tally[k].settled <= tally[k].listed
        /\ C18_Remaining(k) = tally[k].listed - tally[k].settled

\* Two buys of 200.0 have settled against a listing of 500.0, of which 100.0
\* are left, less than any further buy asks for.
C18_Witness ==
    /\ last.op = "buy_with_xml"
    /\ last.res = "ok"
    /\ tally[KeyOf(last.args[1])] = [listed |-> 500 * Scale, settled |-> 400 * Scale]
    /\ C18_Remaining(KeyOf(last.args[1])) = 100 * Scale
    /\ \A x \in MarketBuyInputs : x.amount > C18_Remaining(KeyOf(x))

\* Every listing is of a registered code, and no buy fails for its code not
\* being registered.
C19_ListedState ==
    /\ \A k \in DOMAIN listings : k[1] \in DOMAIN assets
    /\ \A x \in BuyInputs : Buy(St, x).res # "asset not registered"

\* No step takes a code out of the registry.
C19_RegistryStep == DOMAIN assets \subseteq DOMAIN assets'

\* C19: every listing in the book refers to a registered asset code, registry
\* entries never being deleted, so that a buy that has found its listing
\* never fails on the registration of the asset.
C19_ListedAreRegistered == [](C19_ListedState) /\ [][C19_RegistryStep]_vars

\* A buy has found its listing, passed the registration check and failed on
\* the next one, no settlement currency being set.
C19_Witness ==
    /\ last.op = "buy_with_xml"
    /\ last.res = "XML token not set"
    /\ listings # <<>>

\* What each entry point leaves alone, for every input in a state.
C20_FrameState ==
    /\ \A x \in BuyInputs :
        LET o == Buy(St, x)
        IN o.res = "ok" =>
            /\ o.st.assets = assets
            /\ o.st.xml_token = xml_token
            /\ \A k \in (Codes \X Users) \ {KeyOf(x)} :
                    get_listing(o.st, k[1], k[2]) = get_listing(St, k[1], k[2])
    /\ \A x \in RegisterInputs : Register(St, x).st.listings = listings
    /\ \A x \in MintInputs : MintTo(St, x).st.listings = listings
    /\ \A x \in RetireInputs : RetireOf(St, x).st.listings = listings
    /\ \A x \in SetXmlInputs : SetXml(St, x).st.listings = listings

\* A step of register, mint, retire or set_xml_token changes no listing; a
\* step of buy or list_asset changes neither the registry nor the currency
\* reference.
C20_FrameStep ==
    /\ last'.op \in {"register_asset", "mint_to_issuer", "retire", "set_xml_token"} =>
            listings' = listings
    /\ last'.op \in {"buy_with_xml", "list_asset"} =>
            (assets' = assets /\ xml_token' = xml_token)

\* C20: of the contract's storage, a successful buy changes only the listing
\* under its own (code, seller): the registry, the settlement-currency
\* reference and the listings under the other keys are as before; and
\* register, mint, retire and set_xml_token change no listing.
C20_BuyFrame == [](C20_FrameState) /\ [][C20_FrameStep]_vars

\* A buy of a whole listing has committed while both codes are registered and
\* the other key holds a listing; a retire can commit in this state.
C20_Witness ==
    /\ last.op = "buy_with_xml"
    /\ last.res = "ok"
    /\ KeyOf(last.args[1]) \notin DOMAIN listings
    /\ listings # <<>>
    /\ DOMAIN assets = Codes
    /\ \E x \in RetireInputs : RetireOf(St, x).res = "ok"
====
